---- MODULE Spec2Model ----
(***************************************************************************)
(* Model of the salary calculator:                                         *)
(*   - src/src/components/SalaryCalculator.vue: the reactive form, the     *)
(*     computed deduction chain (gross .. net), the necessity share, the   *)
(*     budget formula selection and the allocations;                       *)
(*   - src/src/lib/malaysiaTax.ts: the progressive tax evaluator.          *)
(*                                                                         *)
(* Numbers are exact rationals kept as scaled integers:                    *)
(*   form.salary, ceilings, necessity fields, gross, necessities : RM      *)
(*   form.*Rate                         : tenths of a percent (110 = 11%)  *)
(*   epf, socso, eis, totalDeductions, net : 1/1000 RM                     *)
(*   necessityPct                       : a fraction [num, den], den > 0   *)
(*   allocations                        : 1/100000 RM                      *)
(*   chargeableIncome                   : RM                               *)
(*   rate of a bracket                  : percent                          *)
(*   tax                                : sen (1/100 RM)                   *)
(*   monthlyGross, annualReliefs, *Monthly, chargeable income built : RM   *)
(* An optional number that is null or undefined is the empty sequence, a   *)
(* supplied one the sequence of that number.                               *)
(* A cleared number input holds "", which every use in the component       *)
(* converts to 0 (Number("") || 0, "" / 100, Math.min(x, "")), so a        *)
(* cleared field is the value 0 here.                                      *)
(***************************************************************************)
EXTENDS Integers, Sequences, FiniteSets, TLC

VARIABLES form, showAdvanced,
          gross, epf, socso, eis, totalDeductions, net,
          necessities, necessityPct, chosenFormula, allocations,
          taxArgs, calls,
          buildArgs, built

formVars == <<form, showAdvanced, gross, epf, socso, eis, totalDeductions, net,
              necessities, necessityPct, chosenFormula, allocations>>
taxVars == <<taxArgs, calls>>
buildVars == <<buildArgs, built>>
vars == <<form, showAdvanced, gross, epf, socso, eis, totalDeductions, net,
          necessities, necessityPct, chosenFormula, allocations, taxArgs, calls,
          buildArgs, built>>

Max(a, b) == IF a >= b THEN a ELSE b
Min(a, b) == IF a <= b THEN a ELSE b

\* Math.ceil(n / d) for d > 0 (\div rounds towards minus infinity)
Ceil(n, d) == -((-n) \div d)
Floor(n, d) == n \div d

----------------------------------------------------------------------------
(* Bounds of the inputs                                                    *)

\* otherNecessities is edited to 0 .. MaxOther
MaxOther == 1
\* incomes within Delta of each bracket boundary are evaluated
Delta == 1

FieldValues ==
  [ salary           |-> {-500, 0, 1000, 8000},
    epfRate          |-> {0, 110, 1200},
    socsoRate        |-> {0, 5},
    socsoCeiling     |-> {500, 6000},
    eisRate          |-> {0, 2},
    eisCeiling       |-> {-100, 6000},
    house            |-> {0, 500, 700},
    car              |-> {-100, 0, 100},
    food             |-> {0, 250, 350},
    utilities        |-> {0, 50},
    otherNecessities |-> 0..MaxOther ]

Fields == DOMAIN FieldValues

----------------------------------------------------------------------------
(* SalaryCalculator.vue                                                    *)

DEFAULT_FORMULAS ==
  << [name |-> "50 / 30 / 20", needs |-> 50, wants |-> 30, savings |-> 20],
     [name |-> "70 / 20 / 10", needs |-> 70, wants |-> 20, savings |-> 10],
     [name |-> "60 / 20 / 20", needs |-> 60, wants |-> 20, savings |-> 20] >>

getDefaultForm ==
  [ salary |-> 0, epfRate |-> 110, socsoRate |-> 5, socsoCeiling |-> 6000,
    eisRate |-> 2, eisCeiling |-> 6000,
    house |-> 0, car |-> 0, food |-> 0, utilities |-> 0, otherNecessities |-> 0 ]

Gross(f) == Max(0, f.salary)

Epf(g, f) == g * f.epfRate

Socso(g, f) == Min(g, f.socsoCeiling) * f.socsoRate

Eis(g, f) == Min(g, f.eisCeiling) * f.eisRate

TotalDeductions(e, s, i) == e + s + i

NetNoFloor(g, td) == g * 1000 - td

Net(g, td) == Max(0, g * 1000 - td)

NecessityKeys == <<"house", "car", "food", "utilities", "otherNecessities">>

RECURSIVE SumKeys(_, _)
SumKeys(f, ks) == IF ks = <<>> THEN 0
                  ELSE SumKeys(f, SubSeq(ks, 1, Len(ks) - 1)) + f[ks[Len(ks)]]

Necessities(f) == SumKeys(f, NecessityKeys)

NecessityPctFullWhenNoNet(nec, n) ==
  IF n > 0 THEN [num |-> nec * 1000 * 100, den |-> n]
  ELSE [num |-> 100, den |-> 1]

NecessityPct(nec, n) ==
  IF n > 0 THEN [num |-> nec * 1000 * 100, den |-> n]
  ELSE [num |-> 0, den |-> 1]

\* n >= pct, n an integer
Geq(n, pct) == n * pct.den >= pct.num

\* Array.prototype.sort with (a, b) => a.needs - b.needs (stable)
RECURSIVE InsertByNeeds(_, _)
InsertByNeeds(x, s) ==
  IF s = <<>> THEN <<x>>
  ELSE IF s[Len(s)].needs <= x.needs THEN Append(s, x)
  ELSE Append(InsertByNeeds(x, SubSeq(s, 1, Len(s) - 1)), s[Len(s)])

RECURSIVE SortByNeedsRec(_)
SortByNeedsRec(s) ==
  IF s = <<>> THEN <<>>
  ELSE InsertByNeeds(s[Len(s)], SortByNeedsRec(SubSeq(s, 1, Len(s) - 1)))

Unsorted(s) == s

SortByNeeds(s) == SortByNeedsRec(s)

\* Array.prototype.find: index of the first element that fits, 0 when none
FindFit(s, pct) ==
  IF \E i \in 1..Len(s) : Geq(s[i].needs, pct)
  THEN CHOOSE i \in 1..Len(s) :
         Geq(s[i].needs, pct) /\ \A j \in 1..(i - 1) : ~Geq(s[j].needs, pct)
  ELSE 0

FormulaName(needs, wants, savings) ==
  ToString(needs) \o " / " \o ToString(wants) \o " / " \o ToString(savings) \o " (custom)"

CustomNoSqueeze(pct) ==
  LET needs == Min(100, Ceil(pct.num, pct.den))
      savings == IF needs > 70 THEN 10 ELSE 20
      wants == 100 - needs - savings
  IN [name |-> FormulaName(needs, wants, savings),
      needs |-> needs, wants |-> wants, savings |-> savings]

CustomFloor(pct) ==
  LET needs == Min(100, Floor(pct.num, pct.den))
      savings0 == IF needs > 70 THEN 10 ELSE 20
      wants0 == 100 - needs - savings0
      savings == IF wants0 < 0 THEN Max(0, 100 - needs) ELSE savings0
      wants == IF wants0 < 0 THEN 100 - needs - savings ELSE wants0
  IN [name |-> FormulaName(needs, wants, savings),
      needs |-> needs, wants |-> wants, savings |-> savings]

CustomFormula(pct) ==
  LET needs == Min(100, Ceil(pct.num, pct.den))
      savings0 == IF needs > 70 THEN 10 ELSE 20
      wants0 == 100 - needs - savings0
      savings == IF wants0 < 0 THEN Max(0, 100 - needs) ELSE savings0
      wants == IF wants0 < 0 THEN 100 - needs - savings ELSE wants0
  IN [name |-> FormulaName(needs, wants, savings),
      needs |-> needs, wants |-> wants, savings |-> savings]

ChosenFormula(pct) ==
  LET sorted == SortByNeeds(DEFAULT_FORMULAS)
      fit == FindFit(sorted, pct)
  IN IF fit # 0 THEN sorted[fit] ELSE CustomFormula(pct)

AllocationsSwapped(c, n) ==
  [needsAmount |-> c.needs * n,
   wantsAmount |-> c.savings * n,
   savingsAmount |-> c.savings * n]

Allocations(c, n) ==
  [needsAmount |-> c.needs * n,
   wantsAmount |-> c.wants * n,
   savingsAmount |-> c.savings * n]

\* the computed refs, re-evaluated for the form f
Computed(f) ==
  /\ gross' = Gross(f)
  /\ epf' = Epf(gross', f)
  /\ socso' = Socso(gross', f)
  /\ eis' = Eis(gross', f)
  /\ totalDeductions' = TotalDeductions(epf', socso', eis')
  /\ net' = Net(gross', totalDeductions')
  /\ necessities' = Necessities(f)
  /\ necessityPct' = NecessityPct(necessities', net')
  /\ chosenFormula' = ChosenFormula(necessityPct')
  /\ allocations' = Allocations(chosenFormula', net')

InitForm ==
  /\ form = getDefaultForm
  /\ showAdvanced = FALSE
  /\ gross = Gross(form)
  /\ epf = Epf(gross, form)
  /\ socso = Socso(gross, form)
  /\ eis = Eis(gross, form)
  /\ totalDeductions = TotalDeductions(epf, socso, eis)
  /\ net = Net(gross, totalDeductions)
  /\ necessities = Necessities(form)
  /\ necessityPct = NecessityPct(necessities, net)
  /\ chosenFormula = ChosenFormula(necessityPct)
  /\ allocations = Allocations(chosenFormula, net)

\* v-model.number on one of the inputs
EditField ==
  \E k \in Fields : \E v \in FieldValues[k] :
    /\ form' = [form EXCEPT ![k] = v]
    /\ Computed(form')
    /\ UNCHANGED <<showAdvanced, taxArgs, calls, buildArgs, built>>

ToggleAdvanced ==
  /\ showAdvanced' = ~showAdvanced
  /\ UNCHANGED <<form, gross, epf, socso, eis, totalDeductions, net,
                 necessities, necessityPct, chosenFormula, allocations,
                 taxArgs, calls, buildArgs, built>>

resetForm ==
  /\ form' = getDefaultForm
  /\ showAdvanced' = FALSE
  /\ Computed(form')
  /\ UNCHANGED <<taxArgs, calls, buildArgs, built>>

----------------------------------------------------------------------------
(* malaysiaTax.ts                                                          *)

\* upTo: null
NoUpTo == -1

\* the table with the cumulative figure of the comment on bracket B as its baseTax
BRACKETS_BaseTaxOfComment ==
  << [lowerBound |-> 0,       upTo |-> 5000,    rate |-> 0,  baseTax |-> 0],
     [lowerBound |-> 5000,    upTo |-> 20000,   rate |-> 1,  baseTax |-> 150],
     [lowerBound |-> 20000,   upTo |-> 35000,   rate |-> 3,  baseTax |-> 150],
     [lowerBound |-> 35000,   upTo |-> 50000,   rate |-> 6,  baseTax |-> 600],
     [lowerBound |-> 50000,   upTo |-> 70000,   rate |-> 11, baseTax |-> 1500],
     [lowerBound |-> 70000,   upTo |-> 100000,  rate |-> 19, baseTax |-> 3700],
     [lowerBound |-> 100000,  upTo |-> 400000,  rate |-> 25, baseTax |-> 9400],
     [lowerBound |-> 400000,  upTo |-> 600000,  rate |-> 26, baseTax |-> 84400],
     [lowerBound |-> 600000,  upTo |-> 2000000, rate |-> 28, baseTax |-> 136400],
     [lowerBound |-> 2000000, upTo |-> -1,      rate |-> 30, baseTax |-> 528400] >>

BRACKETS ==
  << [lowerBound |-> 0,       upTo |-> 5000,    rate |-> 0,  baseTax |-> 0],
     [lowerBound |-> 5000,    upTo |-> 20000,   rate |-> 1,  baseTax |-> 0],
     [lowerBound |-> 20000,   upTo |-> 35000,   rate |-> 3,  baseTax |-> 150],
     [lowerBound |-> 35000,   upTo |-> 50000,   rate |-> 6,  baseTax |-> 600],
     [lowerBound |-> 50000,   upTo |-> 70000,   rate |-> 11, baseTax |-> 1500],
     [lowerBound |-> 70000,   upTo |-> 100000,  rate |-> 19, baseTax |-> 3700],
     [lowerBound |-> 100000,  upTo |-> 400000,  rate |-> 25, baseTax |-> 9400],
     [lowerBound |-> 400000,  upTo |-> 600000,  rate |-> 26, baseTax |-> 84400],
     [lowerBound |-> 600000,  upTo |-> 2000000, rate |-> 28, baseTax |-> 136400],
     [lowerBound |-> 2000000, upTo |-> NoUpTo,  rate |-> 30, baseTax |-> 528400] >>

\* the predicate of BRACKETS.find
InBracket(b, ci) ==
  IF b.upTo = NoUpTo THEN ci > b.lowerBound
  ELSE ci > b.lowerBound /\ ci <= b.upTo

\* BRACKETS.find: index of the first bracket that holds ci, 0 for undefined
FindBracket(ci) ==
  IF \E i \in 1..Len(BRACKETS) : InBracket(BRACKETS[i], ci)
  THEN CHOOSE i \in 1..Len(BRACKETS) :
         InBracket(BRACKETS[i], ci) /\ \A j \in 1..(i - 1) : ~InBracket(BRACKETS[j], ci)
  ELSE 0

BracketTaxFromZero(b, ci) ==
  b.baseTax * 100 + (IF b.upTo = NoUpTo THEN ci ELSE Min(ci, b.upTo)) * b.rate

\* let tax = bracket.baseTax + taxableInBracket * bracket.rate, in sen
BracketTax(b, ci) ==
  LET taxableInBracket == (IF b.upTo = NoUpTo THEN ci ELSE Min(ci, b.upTo)) - b.lowerBound
  IN b.baseTax * 100 + taxableInBracket * b.rate

RebateCutoffExclusive(ci, tax, opts) ==
  LET applySelf == opts.applySelfRebate # "false"
      spouse == opts.spouseRebate = "true"
      rebate == (IF applySelf THEN 400 ELSE 0) + (IF spouse THEN 400 ELSE 0)
  IN IF ci < 35000 /\ (applySelf \/ spouse) THEN Max(0, tax - rebate * 100) ELSE tax

RebateNoFloor(ci, tax, opts) ==
  LET applySelf == opts.applySelfRebate # "false"
      spouse == opts.spouseRebate = "true"
      rebate == (IF applySelf THEN 400 ELSE 0) + (IF spouse THEN 400 ELSE 0)
  IN IF ci <= 35000 /\ (applySelf \/ spouse) THEN tax - rebate * 100 ELSE tax

\* the rebate step: the value of tax that is returned
Rebate(ci, tax, opts) ==
  LET applySelf == opts.applySelfRebate # "false"
      spouse == opts.spouseRebate = "true"
      rebate == (IF applySelf THEN 400 ELSE 0) + (IF spouse THEN 400 ELSE 0)
  IN IF ci <= 35000 /\ (applySelf \/ spouse) THEN Max(0, tax - rebate * 100) ELSE tax

\* One evaluation of computeAnnualTax: the path taken, the bracket found,
\* the tax before the rebate step and the returned value.
computeAnnualTax(chargeableIncome, opts) ==
  LET ci == Max(0, chargeableIncome)
      bracket == FindBracket(ci)
  IN IF ci <= 5000
     THEN [chargeableIncome |-> chargeableIncome, opts |-> opts, ci |-> ci,
           path |-> "zero", bracket |-> 0, tax |-> 0, result |-> 0]
     ELSE IF bracket = 0
     THEN [chargeableIncome |-> chargeableIncome, opts |-> opts, ci |-> ci,
           path |-> "nobracket", bracket |-> 0, tax |-> 0, result |-> 0]
     ELSE [chargeableIncome |-> chargeableIncome, opts |-> opts, ci |-> ci,
           path |-> "bracket", bracket |-> bracket,
           tax |-> BracketTax(BRACKETS[bracket], ci),
           result |-> Rebate(ci, BracketTax(BRACKETS[bracket], ci), opts)]

Boundaries == {0, 5000, 20000, 35000, 50000, 70000, 100000, 400000, 600000, 2000000}

Incomes == UNION {{b - d, b + d} : b \in Boundaries, d \in 0..Delta}

\* an absent opts, or an absent field of it, is "undefined"
Tri == {"undefined", "true", "false"}

Opts == [applySelfRebate : Tri, spouseRebate : Tri]

DefaultOpts == [applySelfRebate |-> "undefined", spouseRebate |-> "undefined"]

InitTaxIdle ==
  /\ taxArgs = [a |-> 0, b |-> 0, opts |-> DefaultOpts]
  /\ calls = <<>>

\* two incomes and one options object, evaluated one after the other
InitTax ==
  /\ taxArgs \in [a : Incomes, b : Incomes, opts : Opts]
  /\ calls = <<>>

CallFirst ==
  /\ Len(calls) = 0
  /\ calls' = Append(calls, computeAnnualTax(taxArgs.a, taxArgs.opts))
  /\ UNCHANGED <<taxArgs, form, showAdvanced, gross, epf, socso, eis,
                 totalDeductions, net, necessities, necessityPct,
                 chosenFormula, allocations, buildArgs, built>>

CallSecond ==
  /\ Len(calls) = 1
  /\ calls' = Append(calls, computeAnnualTax(taxArgs.b, taxArgs.opts))
  /\ UNCHANGED <<taxArgs, form, showAdvanced, gross, epf, socso, eis,
                 totalDeductions, net, necessities, necessityPct,
                 chosenFormula, allocations, buildArgs, built>>

\* opts?.x ?? 0
OrZero(x) == IF x = <<>> THEN 0 ELSE x[1]

buildAnnualChargeableIncomeBothNeeded(monthlyGross, annualReliefs, opts) ==
  LET annualGross == Max(0, monthlyGross) * 12
      reliefs0 == Max(0, annualReliefs)
      reliefs1 == IF opts.epfMonthly # <<>>
                  THEN reliefs0 + Min(Max(0, opts.epfMonthly[1]) * 12, 7000)
                  ELSE reliefs0
      reliefs2 == IF opts.socsoMonthly # <<>> /\ opts.eisMonthly # <<>>
                  THEN reliefs1 + Min((Max(0, OrZero(opts.socsoMonthly))
                                       + Max(0, OrZero(opts.eisMonthly))) * 12, 350)
                  ELSE reliefs1
  IN Max(0, annualGross - reliefs2)

\* totalReliefs after each of the two conditional additions is reliefs1, reliefs2
buildAnnualChargeableIncome(monthlyGross, annualReliefs, opts) ==
  LET annualGross == Max(0, monthlyGross) * 12
      reliefs0 == Max(0, annualReliefs)
      reliefs1 == IF opts.epfMonthly # <<>>
                  THEN reliefs0 + Min(Max(0, opts.epfMonthly[1]) * 12, 7000)
                  ELSE reliefs0
      reliefs2 == IF opts.socsoMonthly # <<>> \/ opts.eisMonthly # <<>>
                  THEN reliefs1 + Min((Max(0, OrZero(opts.socsoMonthly))
                                       + Max(0, OrZero(opts.eisMonthly))) * 12, 350)
                  ELSE reliefs1
  IN Max(0, annualGross - reliefs2)

MonthlyGrossValues == {-100, 0, 500, 5000}

AnnualReliefValues == {-1000, 0, 9000, 70000}

\* 600 a month is above the 7000 cap, 550 below it
EpfMonthlyValues == {<<>>, <<-50>>, <<550>>, <<600>>}

\* 25 + 5 a month is above the 350 cap, 10 + 10 below it
SocsoMonthlyValues == {<<>>, <<-5>>, <<10>>, <<25>>}

EisMonthlyValues == {<<>>, <<5>>, <<10>>}

\* an absent opts is the options object with no field supplied
NoBuildOpts == [epfMonthly |-> <<>>, socsoMonthly |-> <<>>, eisMonthly |-> <<>>]

InitBuildIdle ==
  /\ buildArgs = [monthlyGross |-> 0, annualReliefs |-> 0, opts |-> NoBuildOpts]
  /\ built = <<>>

InitBuild ==
  /\ buildArgs \in [monthlyGross : MonthlyGrossValues,
                    annualReliefs : AnnualReliefValues,
                    opts : [epfMonthly : EpfMonthlyValues,
                            socsoMonthly : SocsoMonthlyValues,
                            eisMonthly : EisMonthlyValues]]
  /\ built = <<>>

CallBuild ==
  /\ Len(built) = 0
  /\ built' = <<buildAnnualChargeableIncome(buildArgs.monthlyGross,
                                            buildArgs.annualReliefs, buildArgs.opts)>>
  /\ UNCHANGED <<buildArgs, taxArgs, calls, form, showAdvanced, gross, epf, socso,
                 eis, totalDeductions, net, necessities, necessityPct,
                 chosenFormula, allocations>>

----------------------------------------------------------------------------
(* Specifications                                                          *)

Init == InitForm /\ InitTaxIdle /\ InitBuildIdle

Next == EditField \/ ToggleAdvanced \/ resetForm

\* the calculator form under edits and resets
Spec == Init /\ [][Next]_vars

TaxInit == InitForm /\ InitTax /\ InitBuildIdle

TaxNext == CallFirst \/ CallSecond

\* the tax evaluator applied to bounded inputs
TaxSpec == TaxInit /\ [][TaxNext]_vars

BuildInit == InitForm /\ InitTaxIdle /\ InitBuild

BuildNext == CallBuild

\* buildAnnualChargeableIncome applied to bounded inputs
BuildSpec == BuildInit /\ [][BuildNext]_vars

----------------------------------------------------------------------------
(* Properties of the calculator form (Spec)                                *)

Presets == {DEFAULT_FORMULAS[i] : i \in 1..Len(DEFAULT_FORMULAS)}

\* the presets whose needs cover the necessity share
Sufficient == {p \in Presets : p.needs * necessityPct.den >= necessityPct.num}

\* necessityPct = k, k an integer
PctIs(k) == necessityPct.num = k * necessityPct.den

\* C1: after any sequence of edits and resets the chosen formula has needs,
\* wants and savings each in [0,100] and they sum to exactly 100.
C1_FormulaIsSplitOf100 ==
  /\ chosenFormula.needs \in 0..100
  /\ chosenFormula.wants \in 0..100
  /\ chosenFormula.savings \in 0..100
  /\ chosenFormula.needs + chosenFormula.wants + chosenFormula.savings = 100

\* a custom formula whose savings were squeezed below 10
C1_Witness ==
  /\ chosenFormula \notin Presets
  /\ chosenFormula.needs > 90
  /\ chosenFormula.savings < 10

\* C2: when some preset has needs >= necessityPct the chosen formula is the
\* sufficient preset with the smallest needs: 50/30/20 up to 50, 60/20/20 in
\* (50,60], 70/20/10 in (60,70]; a custom formula only above 70.
C2_SmallestSufficientPreset ==
  /\ Sufficient # {} =>
       /\ chosenFormula \in Sufficient
       /\ \A p \in Sufficient : chosenFormula.needs <= p.needs
  /\ necessityPct.num <= 50 * necessityPct.den => chosenFormula = DEFAULT_FORMULAS[1]
  /\ (necessityPct.num > 50 * necessityPct.den /\ necessityPct.num <= 60 * necessityPct.den)
       => chosenFormula = DEFAULT_FORMULAS[3]
  /\ (necessityPct.num > 60 * necessityPct.den /\ necessityPct.num <= 70 * necessityPct.den)
       => chosenFormula = DEFAULT_FORMULAS[2]
  /\ chosenFormula \notin Presets <=> necessityPct.num > 70 * necessityPct.den

\* a necessity share in (50,60], where the declared order has 70/20/10 first
C2_Witness ==
  /\ necessityPct.num > 50 * necessityPct.den
  /\ necessityPct.num <= 60 * necessityPct.den
  /\ chosenFormula.needs = 60

\* C3: when no preset fits, needs = min(100, ceil(necessityPct)), savings is
\* 10 if needs > 70 else 20, wants = 100 - needs - savings, and a negative
\* wants squeezes savings to max(0, 100 - needs) with wants 0; 85 gives
\* 85/5/10, 95 gives 95/0/5 and any share >= 100 gives 100/0/0.
C3_CustomFormula ==
  /\ Sufficient = {} =>
       LET up == IF necessityPct.num % necessityPct.den = 0
                 THEN necessityPct.num \div necessityPct.den
                 ELSE (necessityPct.num \div necessityPct.den) + 1
           needs == IF up > 100 THEN 100 ELSE up
           target == IF needs > 70 THEN 10 ELSE 20
       IN /\ chosenFormula.needs = needs
          /\ (100 - needs - target >= 0) =>
               /\ chosenFormula.savings = target
               /\ chosenFormula.wants = 100 - needs - target
          /\ (100 - needs - target < 0) =>
               /\ chosenFormula.savings = 100 - needs
               /\ chosenFormula.wants = 0
  /\ PctIs(85) => <<chosenFormula.needs, chosenFormula.wants, chosenFormula.savings>>
                    = <<85, 5, 10>>
  /\ PctIs(95) => <<chosenFormula.needs, chosenFormula.wants, chosenFormula.savings>>
                    = <<95, 0, 5>>
  /\ necessityPct.num >= 100 * necessityPct.den =>
       <<chosenFormula.needs, chosenFormula.wants, chosenFormula.savings>> = <<100, 0, 0>>

\* a fractional share above 90: the ceiling and the squeeze both act
C3_Witness ==
  /\ necessityPct.num > 90 * necessityPct.den
  /\ necessityPct.num < 100 * necessityPct.den
  /\ necessityPct.num % necessityPct.den # 0
  /\ chosenFormula.wants = 0

\* C4: gross = max(0, salary), EPF = gross * epfRate / 100 uncapped, SOCSO and
\* EIS apply their rate to min(gross, ceiling), net = max(0, gross - deductions):
\* net is never negative and salary above a ceiling adds nothing to SOCSO/EIS.
C4_DeductionsAndNet ==
  /\ gross = (IF form.salary > 0 THEN form.salary ELSE 0)
  /\ epf = gross * form.epfRate
  /\ socso = (IF gross < form.socsoCeiling THEN gross ELSE form.socsoCeiling) * form.socsoRate
  /\ eis = (IF gross < form.eisCeiling THEN gross ELSE form.eisCeiling) * form.eisRate
  /\ net >= 0
  /\ gross * 1000 >= epf + socso + eis => net = gross * 1000 - (epf + socso + eis)
  /\ gross * 1000 < epf + socso + eis => net = 0
  /\ gross > form.socsoCeiling => socso = form.socsoCeiling * form.socsoRate
  /\ gross > form.eisCeiling => eis = form.eisCeiling * form.eisRate

\* deductions above a positive gross, salary above the SOCSO ceiling
C4_Witness ==
  /\ gross > form.socsoCeiling
  /\ socso > 0
  /\ epf + socso + eis > gross * 1000
  /\ net = 0

\* C5: necessitiesTotal is the sum of the five necessity fields, each floored
\* at 0 on its own, so it is never negative and a negative entry never lowers
\* the total of the other entries.
C5_NecessitiesFlooredPerField ==
  /\ necessities = Max(0, form.house) + Max(0, form.car) + Max(0, form.food)
                   + Max(0, form.utilities) + Max(0, form.otherNecessities)
  /\ necessities >= 0

\* C6: necessityPct = necessities / net * 100 when net > 0 and 0 when net is 0;
\* with salary >= 0 and all necessity amounts zero it is 0 and 50/30/20 is chosen.
C6_NecessityPctGuarded ==
  /\ net > 0 => necessityPct = [num |-> necessities * 100000, den |-> net]
  /\ net = 0 => necessityPct.num = 0 /\ necessityPct.den > 0
  /\ (/\ form.salary >= 0
      /\ \A i \in 1..Len(NecessityKeys) : form[NecessityKeys[i]] = 0)
       => /\ necessityPct.num = 0
          /\ chosenFormula = DEFAULT_FORMULAS[1]

\* no net income while necessities are entered
C6_Witness ==
  /\ net = 0
  /\ form.salary > 0
  /\ necessities > 0
  /\ necessityPct.num = 0

\* C7: the three allocation amounts sum to net and none is negative.
C7_AllocationsSumToNet ==
  /\ allocations.needsAmount + allocations.wantsAmount + allocations.savingsAmount
       = net * 100
  /\ allocations.needsAmount >= 0
  /\ allocations.wantsAmount >= 0
  /\ allocations.savingsAmount >= 0

\* a custom formula dividing a positive net
C7_Witness ==
  /\ net > 0
  /\ chosenFormula \notin Presets
  /\ allocations.wantsAmount > 0
  /\ allocations.wantsAmount # allocations.savingsAmount

----------------------------------------------------------------------------
(* Properties of the tax evaluator (TaxSpec)                               *)

\* the brackets b with b.lowerBound < ci <= b.upTo (no upper limit on the last)
Holding(ci) ==
  {k \in 1..Len(BRACKETS) :
     /\ BRACKETS[k].lowerBound < ci
     /\ (BRACKETS[k].upTo = NoUpTo \/ ci <= BRACKETS[k].upTo)}

C9_Rebate ==
  \A i \in 1..Len(calls) :
    LET c == calls[i]
        ci == IF c.chargeableIncome > 0 THEN c.chargeableIncome ELSE 0
        self == IF c.opts.applySelfRebate = "false" THEN 0 ELSE 40000
        spouse == IF c.opts.spouseRebate = "true" THEN 40000 ELSE 0
    IN /\ ci <= 35000 =>
            c.result = (IF c.tax - (self + spouse) > 0 THEN c.tax - (self + spouse) ELSE 0)
       /\ ci > 35000 => c.result = c.tax
       /\ (c.opts = DefaultOpts /\ c.chargeableIncome = 20000) => c.result = 0
       /\ (c.opts = DefaultOpts /\ c.chargeableIncome = 35000) => c.result = 20000

\* the rebate leaves part of the tax at the cut-off income
C9_Witness ==
  \E i \in 1..Len(calls) :
    /\ calls[i].opts = DefaultOpts
    /\ calls[i].chargeableIncome = 35000
    /\ calls[i].tax = 60000
    /\ calls[i].result = 20000

\* C10: for fixed options computeAnnualTax is non-decreasing in the income.
C10_Monotonic ==
  (Len(calls) = 2 /\ calls[1].chargeableIncome <= calls[2].chargeableIncome)
    => calls[1].result <= calls[2].result

\* two evaluations on either side of the rebate cut-off
C10_Witness ==
  /\ Len(calls) = 2
  /\ calls[1].chargeableIncome = 35000
  /\ calls[2].chargeableIncome = 35001
  /\ calls[1].opts.spouseRebate = "true"
  /\ calls[1].result < calls[2].result

----------------------------------------------------------------------------
(* Properties of buildAnnualChargeableIncome (BuildSpec)                   *)

\* x floored at 0
Pos(x) == IF x > 0 THEN x ELSE 0

\* x capped at c
Cap(x, c) == IF x < c THEN x ELSE c

\* C11: the result is max(0, max(0, monthlyGross) * 12 - totalReliefs) with
\* totalReliefs = max(0, annualReliefs) + min(max(0, epfMonthly) * 12, 7000) if
\* epfMonthly is supplied + min((max(0, socsoMonthly) + max(0, eisMonthly)) * 12, 350)
\* if either of the two is supplied, a missing one counting as 0; it is never
\* negative and buildAnnualChargeableIncome(5000, 0, {epfMonthly: 550}) = 53400.
C11_ChargeableIncome ==
  Len(built) = 1 =>
    LET o == buildArgs.opts
        epfRelief == IF o.epfMonthly = <<>> THEN 0
                     ELSE Cap(Pos(o.epfMonthly[1]) * 12, 7000)
        socsoPart == IF o.socsoMonthly = <<>> THEN 0 ELSE Pos(o.socsoMonthly[1])
        eisPart == IF o.eisMonthly = <<>> THEN 0 ELSE Pos(o.eisMonthly[1])
        socsoEisRelief == IF o.socsoMonthly = <<>> /\ o.eisMonthly = <<>> THEN 0
                          ELSE Cap((socsoPart + eisPart) * 12, 350)
        totalReliefs == Pos(buildArgs.annualReliefs) + epfRelief + socsoEisRelief
    IN /\ built[1] = Pos(Pos(buildArgs.monthlyGross) * 12 - totalReliefs)
       /\ built[1] >= 0
       /\ (/\ buildArgs.monthlyGross = 5000
           /\ buildArgs.annualReliefs = 0
           /\ o = [epfMonthly |-> <<550>>, socsoMonthly |-> <<>>, eisMonthly |-> <<>>])
            => built[1] = 53400

\* only one of socsoMonthly and eisMonthly is supplied and the EPF cap acts
C11_Witness ==
  /\ Len(built) = 1
  /\ buildArgs.monthlyGross = 5000
  /\ buildArgs.annualReliefs = 0
  /\ buildArgs.opts = [epfMonthly |-> <<600>>, socsoMonthly |-> <<10>>, eisMonthly |-> <<>>]
  /\ built[1] = 60000 - 7000 - 120

----------------------------------------------------------------------------
(* Properties of the bracket table (TaxSpec)                               *)

====
